---- MODULE Spec2Model ----
(***************************************************************************)
(* Model of the in-memory virtual file system of                           *)
(* src/file_system_structure.py: the node heap (FileNode, DirectoryNode),  *)
(* the VirtualFileSystem object (root, traversal_cache), its path helpers, *)
(* its CRUD operations and its serializer / deserializer.                  *)
(*                                                                         *)
(* A Python string is a sequence of one-character strings, so that         *)
(* normalisation, the regular expressions and split() are computed.        *)
(* A Python object is a number (its identity); `nodes` is the heap.        *)
(***************************************************************************)
EXTENDS Naturals, Integers, Sequences, FiniteSets, TLC

VARIABLES nodes, root, traversal_cache, nextId, clock, last, result

vars == <<nodes, root, traversal_cache, nextId, clock, last, result>>

----------------------------------------------------------------------------
(* Bounds *)

\* number of node objects a run may construct besides the first root
MaxNodes == 3

\* the same, in the runs where time passes
MaxTimedNodes == 2

\* largest value datetime.now() takes
MaxClock == 1

\* longest path string tried on the pure path functions
MaxLen == 7

----------------------------------------------------------------------------
(* Strings *)

SEP == "/"

RootPath == <<"/">>

EmptyStr == << >>

NoNode == 0

startswith(s, prefix) ==
    /\ Len(prefix) <= Len(s)
    /\ SubSeq(s, 1, Len(prefix)) = prefix

endswith(s, suffix) ==
    /\ Len(suffix) <= Len(s)
    /\ SubSeq(s, Len(s) - Len(suffix) + 1, Len(s)) = suffix

\* index of the last separator of s, 0 when s has none
LastSlash(s) ==
    LET I == {i \in 1..Len(s) : s[i] = SEP}
    IN  IF I = {} THEN 0 ELSE CHOOSE i \in I : \A j \in I : j <= i

\* str.strip("/")
strip(s) ==
    LET I == {i \in 1..Len(s) : s[i] # SEP}
    IN  IF I = {} THEN EmptyStr
        ELSE SubSeq(s, CHOOSE i \in I : \A j \in I : i <= j,
                       CHOOSE i \in I : \A j \in I : j <= i)

\* str.split("/"): always at least one part, parts may be empty
RECURSIVE split(_)
split(s) ==
    LET I == {i \in 1..Len(s) : s[i] = SEP}
    IN  IF I = {} THEN <<s>>
        ELSE LET k == CHOOSE i \in I : \A j \in I : i <= j
             IN  <<SubSeq(s, 1, k - 1)>> \o split(SubSeq(s, k + 1, Len(s)))

_normalize_path(path) ==
    LET p1 == IF path = EmptyStr THEN RootPath ELSE path
        p2 == IF ~startswith(p1, <<SEP>>) THEN <<SEP>> \o p1 ELSE p1
        p3 == IF p2 # RootPath /\ endswith(p2, <<SEP>>)
                 THEN SubSeq(p2, 1, Len(p2) - 1) ELSE p2
    IN  p3

\* re.search(r".*(?=\/(?!.*\/))", s).group(): what precedes the last separator
ParentPathOf(s) == SubSeq(s, 1, LastSlash(s) - 1)

\* re.search(r"\/(?!.*\/).*$", s): matches from the last separator on, or not at all
NameMatches(s) == LastSlash(s) # 0

\* .group().replace("/", ""): what follows the last separator
NameOf(s) == SubSeq(s, LastSlash(s) + 1, Len(s))

\* re.sub(r"\/(?!.*\/).*", "/" + new_name, path)
SubLastSegment(path, new_name) ==
    IF LastSlash(path) = 0 THEN path
    ELSE SubSeq(path, 1, LastSlash(path) - 1) \o <<SEP>> \o new_name

----------------------------------------------------------------------------
(* Values *)

\* a bytes or str object: its type and its code units
BytesContent(data) == [type |-> "bytes", data |-> data]

StrContent(data) == [type |-> "str", data |-> data]

NoContent == [type |-> "none", data |-> << >>]

\* len(content)
len(content) == Len(content.data)

\* the value an operation returned, or the exception it raised
Ret(status, content) == [status |-> status, content |-> content]

RetTrue == Ret("True", NoContent)

RetFalse == Ret("False", NoContent)

RetNone == Ret("None", NoContent)

RetRaise == Ret("AttributeError", NoContent)

EmptyDict == [k \in {} |-> NoNode]

\* d[key] = value on a dict
DictSet(d, key, value) ==
    [k \in (DOMAIN d) \cup {key} |-> IF k = key THEN value ELSE d[k]]

\* del d[key]
DictDel(d, key) == [k \in (DOMAIN d) \ {key} |-> d[k]]

\* the keys of dict d in iteration order, after d[key] = value:
\* a new key goes last, a key d has keeps its place
KeysSet(keys, d, key) == IF key \in DOMAIN d THEN keys ELSE Append(keys, key)

\* the keys in iteration order after del d[key]
RECURSIVE KeysDel(_, _)
KeysDel(keys, key) ==
    IF keys = << >> THEN << >>
    ELSE IF Head(keys) = key THEN Tail(keys)
    ELSE <<Head(keys)>> \o KeysDel(Tail(keys), key)

----------------------------------------------------------------------------
(* Nodes *)

FileNode(name, parent, content, now) ==
    [kind |-> "file", name |-> name, parent |-> parent,
     created |-> now, modified |-> now, accessed |-> now,
     content |-> content, size |-> len(content)]

\* children is the dict; order lists its keys as the dict iterates them
DirectoryNode(name, parent, now) ==
    [kind |-> "directory", name |-> name, parent |-> parent,
     created |-> now, modified |-> now, accessed |-> now,
     children |-> EmptyDict, order |-> << >>]

isDirectory(ns, n) == n # NoNode /\ ns[n].kind = "directory"

isFile(ns, n) == n # NoNode /\ ns[n].kind = "file"

\* DirectoryNode.get_child on the heap ns
get_child(ns, d, child_name) ==
    IF child_name \in DOMAIN ns[d].children THEN ns[d].children[child_name] ELSE NoNode

\* DirectoryNode.add_child on the heap ns
add_child(ns, d, child, now) ==
    [ns EXCEPT ![d].children = DictSet(@, ns[child].name, child),
               ![d].order = KeysSet(@, ns[d].children, ns[child].name),
               ![child].parent = d,
               ![d].modified = now]

\* DirectoryNode.remove_child on the heap ns
remove_child(ns, d, child_name, now) ==
    IF child_name \in DOMAIN ns[d].children
      THEN [ns EXCEPT ![d].children = DictDel(@, child_name),
                      ![d].order = KeysDel(@, child_name),
                      ![d].modified = now]
      ELSE ns

\* a read that refreshes the modified timestamp as well
read_refreshing_modified(ns, f, now) ==
    [ns EXCEPT ![f].accessed = now, ![f].modified = now]

\* FileNode.read: the heap after the read
read(ns, f, now) == [ns EXCEPT ![f].accessed = now]

\* a write that appends the content to what the file holds
write_appending(ns, f, content, now) ==
    [ns EXCEPT ![f].content = [type |-> content.type, data |-> @.data \o content.data],
               ![f].size = @ + len(content),
               ![f].created = now, ![f].modified = now, ![f].accessed = now]

\* FileNode.write
write(ns, f, content, now) ==
    [ns EXCEPT ![f].content = content, ![f].size = len(content),
               ![f].created = now, ![f].modified = now, ![f].accessed = now]

----------------------------------------------------------------------------
(* VirtualFileSystem: fs is [nodes, root, traversal_cache, nextId] *)

\* VirtualFileSystem.__init__ at time now
NewVFS(now) ==
    [nodes |-> [n \in {1} |-> DirectoryNode(RootPath, NoNode, now)],
     root |-> 1,
     traversal_cache |-> [k \in {RootPath} |-> 1],
     nextId |-> 2]

\* the for loop of _get_node_object_by_path over path_parts, from `current`
RECURSIVE Walk(_, _, _)
Walk(ns, current, path_parts) ==
    IF path_parts = << >> THEN current
    ELSE IF Head(path_parts) = EmptyStr THEN NoNode
    ELSE IF ~isDirectory(ns, current) THEN NoNode
    ELSE LET child == get_child(ns, current, Head(path_parts))
         IN  IF child = NoNode THEN NoNode
             ELSE Walk(ns, child, Tail(path_parts))

\* an end of the traversal that caches what it found, a node or None
Traversed_caching_none(fs, path, current) ==
    [fs |-> [fs EXCEPT !.traversal_cache = DictSet(@, path, current)],
     node |-> current]

\* the end of the traversal: a node found is cached under the normalized path
Traversed(fs, path, current) ==
    IF current = NoNode THEN [fs |-> fs, node |-> NoNode]
    ELSE [fs |-> [fs EXCEPT !.traversal_cache = DictSet(@, path, current)],
          node |-> current]

\* _get_node_object_by_path after the normalization of its path
Lookup(fs, path) ==
    IF path \in DOMAIN fs.traversal_cache
      THEN [fs |-> fs, node |-> fs.traversal_cache[path]]
    ELSE IF path = RootPath THEN [fs |-> fs, node |-> fs.root]
    ELSE Traversed(fs, path, Walk(fs.nodes, fs.root, split(strip(path))))

\* _get_node_object_by_path: the node found (NoNode for None) and the file system left
_get_node_object_by_path(fs, path) == Lookup(fs, _normalize_path(path))

\* the return statements of _get_parent_directory_and_name, r the parent path's lookup
ParentAndName(r, name) ==
    [raised |-> FALSE,
     parent |-> IF r.node = NoNode \/ ~isDirectory(r.fs.nodes, r.node) THEN NoNode ELSE r.node,
     name |-> name,
     fs |-> r.fs]

\* _get_parent_directory_and_name: raised (re.search found nothing in path),
\* or (parent, name); and the file system left
_get_parent_directory_and_name(fs, path) ==
    IF path = RootPath
      THEN [raised |-> FALSE, parent |-> NoNode, name |-> EmptyStr, fs |-> fs]
    ELSE IF ~NameMatches(path)
      THEN [raised |-> TRUE, parent |-> NoNode, name |-> EmptyStr, fs |-> fs]
    ELSE ParentAndName(_get_node_object_by_path(fs, ParentPathOf(_normalize_path(path))),
                       NameOf(path))

\* an invalidation by string prefix, without the separator
Changed_by_prefix(cache, normalized_path) ==
    {k \in DOMAIN cache : startswith(k, normalized_path)}

\* the keys _remove_changed_node_from_cache deletes
Changed(cache, normalized_path) ==
    {k \in DOMAIN cache : k = normalized_path \/ startswith(k, normalized_path \o <<SEP>>)}

_remove_changed_node_from_cache(fs, cached_path) ==
    [fs EXCEPT !.traversal_cache =
        [k \in (DOMAIN @) \ Changed(@, _normalize_path(cached_path)) |-> @[k]]]

\* the construction of a node object: it gets the identity fs.nextId
Alloc(fs, node) ==
    [fs EXCEPT !.nodes = [n \in (DOMAIN @) \cup {fs.nextId} |->
                             IF n = fs.nextId THEN node ELSE @[n]],
               !.nextId = @ + 1]

\* parent_dir.add_child(new node); traversal_cache[key] = new node
Insert(fs, parent_dir, node, key, now) ==
    [Alloc(fs, node) EXCEPT !.nodes = add_child(@, parent_dir, fs.nextId, now),
                            !.traversal_cache = DictSet(@, key, fs.nextId)]

----------------------------------------------------------------------------
(* CRUD operations: each yields the file system it leaves and what it returned *)

\* create_file and create_directory after _get_parent_directory_and_name returned pn
CreateIn(pn, node, key, now) ==
    IF pn.raised THEN [fs |-> pn.fs, ret |-> RetRaise]
    ELSE IF pn.parent = NoNode THEN [fs |-> pn.fs, ret |-> RetFalse]
    ELSE IF pn.name \in DOMAIN pn.fs.nodes[pn.parent].children
      THEN [fs |-> pn.fs, ret |-> RetFalse]
    ELSE [fs |-> Insert(pn.fs, pn.parent, [node EXCEPT !.name = pn.name, !.parent = pn.parent],
                        key, now),
          ret |-> RetTrue]

create_file(fs, path, content, now) ==
    CreateIn(_get_parent_directory_and_name(fs, path),
             FileNode(EmptyStr, NoNode, content, now), _normalize_path(path), now)

create_directory(fs, path, now) ==
    CreateIn(_get_parent_directory_and_name(fs, path),
             DirectoryNode(EmptyStr, NoNode, now), _normalize_path(path), now)

\* read_file after _get_node_object_by_path returned r
ReadAt(r, now) ==
    IF r.node = NoNode \/ ~isFile(r.fs.nodes, r.node)
      THEN [fs |-> r.fs, ret |-> RetNone]
    ELSE [fs |-> [r.fs EXCEPT !.nodes = read(@, r.node, now)],
          ret |-> Ret("content", r.fs.nodes[r.node].content)]

read_file(fs, path, now) == ReadAt(_get_node_object_by_path(fs, path), now)

\* the creating branch of write_file after _get_parent_directory_and_name returned pn
WriteNew(pn, content, key, now) ==
    IF pn.raised THEN [fs |-> pn.fs, ret |-> RetRaise]
    ELSE IF pn.parent = NoNode THEN [fs |-> pn.fs, ret |-> RetFalse]
    ELSE [fs |-> Insert(pn.fs, pn.parent, FileNode(pn.name, pn.parent, content, now), key, now),
          ret |-> RetTrue]

\* write_file after _get_node_object_by_path returned r
WriteAt(r, path, content, now) ==
    IF r.node = NoNode
      THEN WriteNew(_get_parent_directory_and_name(r.fs, path), content,
                    _normalize_path(path), now)
    ELSE IF ~isFile(r.fs.nodes, r.node) THEN [fs |-> r.fs, ret |-> RetFalse]
    ELSE [fs |-> [r.fs EXCEPT !.nodes = write(@, r.node, content, now)], ret |-> RetTrue]

write_file(fs, path, content, now) ==
    WriteAt(_get_node_object_by_path(fs, path), path, content, now)

\* delete from parent_dir.remove_child on: r.node is node_object
Removed(r, parent_dir, node_name, path, now) ==
    [_remove_changed_node_from_cache(
        [r.fs EXCEPT !.nodes = remove_child(@, parent_dir, node_name, now),
                     !.traversal_cache = DictSet(@, _normalize_path(path), r.node)],
        path)
     EXCEPT !.nodes[parent_dir].modified = now]

\* a delete that stamps the parent directory before it looks at the node
DeleteAt_stamping_first(r, parent_dir, node_name, path, now) ==
    IF r.node = NoNode \/ r.node = r.fs.root
      THEN [fs |-> [r.fs EXCEPT !.nodes[parent_dir].modified = now], ret |-> RetFalse]
    ELSE [fs |-> Removed(r, parent_dir, node_name, path, now), ret |-> RetTrue]

\* delete after _get_node_object_by_path returned r
DeleteAt(r, parent_dir, node_name, path, now) ==
    IF r.node = NoNode THEN [fs |-> r.fs, ret |-> RetFalse]
    ELSE IF r.node = r.fs.root THEN [fs |-> r.fs, ret |-> RetFalse]
    ELSE [fs |-> Removed(r, parent_dir, node_name, path, now), ret |-> RetTrue]

\* delete after _get_parent_directory_and_name returned pn
DeleteIn(pn, path, now) ==
    IF pn.raised THEN [fs |-> pn.fs, ret |-> RetRaise]
    ELSE IF pn.parent = NoNode THEN [fs |-> pn.fs, ret |-> RetFalse]
    ELSE DeleteAt(_get_node_object_by_path(pn.fs, path), pn.parent, pn.name, path, now)

delete(fs, path, now) == DeleteIn(_get_parent_directory_and_name(fs, path), path, now)

\* a rename that puts the node back before it changes its name
Reinserted_adding_first(ns, parent_dir, node_object, new_name, now) ==
    [add_child(remove_child(ns, parent_dir, ns[node_object].name, now),
               parent_dir, node_object, now)
        EXCEPT ![node_object].name = new_name]

\* rename: remove_child(node_object.name); node_object.name = new_name; add_child(node_object)
Reinserted(ns, parent_dir, node_object, new_name, now) ==
    add_child([remove_child(ns, parent_dir, ns[node_object].name, now)
                  EXCEPT ![node_object].name = new_name],
              parent_dir, node_object, now)

\* rename from parent_dir.remove_child on
Renamed(fs, parent_dir, node_object, path, new_name, now) ==
    [_remove_changed_node_from_cache(
        [fs EXCEPT !.nodes = Reinserted(@, parent_dir, node_object, new_name, now)], path)
     EXCEPT !.traversal_cache =
        DictSet(@, _normalize_path(SubLastSegment(path, new_name)), node_object)]

\* rename after parent_dir.get_child(node_name) returned node_object
RenameAt(fs, parent_dir, node_object, path, new_name, now) ==
    IF node_object = NoNode THEN [fs |-> fs, ret |-> RetFalse]
    ELSE [fs |-> Renamed(fs, parent_dir, node_object, path, new_name, now), ret |-> RetTrue]

\* rename after _get_parent_directory_and_name returned pn
RenameIn(pn, path, new_name, now) ==
    IF pn.raised THEN [fs |-> pn.fs, ret |-> RetRaise]
    ELSE IF pn.parent = NoNode THEN [fs |-> pn.fs, ret |-> RetFalse]
    ELSE RenameAt(pn.fs, pn.parent, get_child(pn.fs.nodes, pn.parent, pn.name),
                  path, new_name, now)

rename(fs, path, new_name, now) ==
    RenameIn(_get_parent_directory_and_name(fs, path), path, new_name, now)

----------------------------------------------------------------------------
(* Serialization: to_dict, the JSON file, from_dict *)

\* datetime.isoformat(): the text of a timestamp
isoformat(t) == [iso |-> t]

\* datetime.fromisoformat()
fromisoformat(text) == text.iso

\* str.encode("utf-8") of code points below 2048
RECURSIVE encode(_)
encode(cps) ==
    IF cps = << >> THEN << >>
    ELSE (IF Head(cps) < 128 THEN <<Head(cps)>>
          ELSE <<192 + (Head(cps) \div 64), 128 + (Head(cps) % 64)>>) \o encode(Tail(cps))

\* bytes.decode("utf-8") can decode these bytes (one- and two-byte sequences)
RECURSIVE decodable(_)
decodable(bs) ==
    IF bs = << >> THEN TRUE
    ELSE IF Head(bs) < 128 THEN decodable(Tail(bs))
    ELSE /\ Head(bs) >= 194 /\ Head(bs) < 224
         /\ Len(bs) >= 2 /\ bs[2] >= 128 /\ bs[2] < 192
         /\ decodable(Tail(Tail(bs)))

\* bytes.decode("utf-8")
RECURSIVE decode(_)
decode(bs) ==
    IF bs = << >> THEN << >>
    ELSE IF Head(bs) < 128 THEN <<Head(bs)>> \o decode(Tail(bs))
    ELSE <<(Head(bs) - 192) * 64 + (bs[2] - 128)>> \o decode(Tail(Tail(bs)))

\* FileSystemNode.to_metadata
to_metadata(ns, n) ==
    IF ns[n].kind = "directory"
      THEN [created |-> isoformat(ns[n].created), accessed |-> isoformat(ns[n].accessed),
            modified |-> isoformat(ns[n].modified), type |-> "directory"]
      ELSE [created |-> isoformat(ns[n].created), accessed |-> isoformat(ns[n].accessed),
            modified |-> isoformat(ns[n].modified), type |-> "file",
            size |-> ns[n].size,
            content |-> IF ns[n].content.type = "bytes"
                          THEN StrContent(decode(ns[n].content.data))
                          ELSE ns[n].content]

\* DirectoryNode.to_dict (a file child contributes its to_metadata);
\* the JSON object "children" is the sequence of its (key, value) members
RECURSIVE to_dict(_, _)
to_dict(ns, n) ==
    IF ns[n].kind = "directory"
      THEN [created |-> to_metadata(ns, n).created, accessed |-> to_metadata(ns, n).accessed,
            modified |-> to_metadata(ns, n).modified, type |-> "directory",
            children |-> [i \in 1..Len(ns[n].order) |->
                             [key |-> ns[n].order[i],
                              value |-> to_dict(ns, ns[n].children[ns[n].order[i]])]]]
      ELSE to_metadata(ns, n)

\* to_metadata raises UnicodeDecodeError on some file below n
RECURSIVE to_dict_raises(_, _)
to_dict_raises(ns, n) ==
    IF ns[n].kind = "directory"
      THEN \E k \in DOMAIN ns[n].children : to_dict_raises(ns, ns[n].children[k])
      ELSE ns[n].content.type = "bytes" /\ ~decodable(ns[n].content.data)

\* update_json_storage: the document written to the JSON file
update_json_storage(fs) == <<[key |-> RootPath, value |-> to_dict(fs.nodes, fs.root)]>>

\* from_dict._construct_node on the heap st = [nodes, nextId]: the heap and the node built
RECURSIVE _construct_node(_, _, _, _, _)
RECURSIVE ConstructChildren(_, _, _, _)
_construct_node(st, name, data, parent, now) ==
    LET id == st.nextId
        file_node == [FileNode(name, parent, BytesContent(<< >>), now) EXCEPT
                        !.created = fromisoformat(data.created),
                        !.accessed = fromisoformat(data.accessed),
                        !.modified = fromisoformat(data.modified),
                        !.size = data.size,
                        !.content = IF data.content.type = "str"
                                      THEN BytesContent(encode(data.content.data))
                                      ELSE data.content]
        dir_node == [DirectoryNode(name, parent, now) EXCEPT
                        !.created = fromisoformat(data.created),
                        !.accessed = fromisoformat(data.accessed),
                        !.modified = fromisoformat(data.modified)]
        node == IF data.type = "file" THEN file_node ELSE dir_node
        st1 == [nodes |-> [n \in (DOMAIN st.nodes) \cup {id} |->
                              IF n = id THEN node ELSE st.nodes[n]],
                nextId |-> id + 1]
    IN  IF data.type = "file" THEN [st |-> st1, node |-> id]
        ELSE [st |-> ConstructChildren(st1, id, data.children, now), node |-> id]

\* the loop over children_object.items() in _construct_node
ConstructChildren(st, dir_node, children_object, now) ==
    IF children_object = << >> THEN st
    ELSE LET c == _construct_node(st, Head(children_object).key, Head(children_object).value,
                                  dir_node, now)
             st1 == [c.st EXCEPT !.nodes = add_child(@, dir_node, c.node, now)]
         IN  ConstructChildren(st1, dir_node, Tail(children_object), now)

\* str.rstrip("/")
RECURSIVE rstrip(_)
rstrip(s) ==
    IF s # << >> /\ s[Len(s)] = SEP THEN rstrip(SubSeq(s, 1, Len(s) - 1)) ELSE s

\* from_dict._cache_persisted_data: the cache after visiting node at current_path
RECURSIVE _cache_persisted_data(_, _, _, _)
RECURSIVE CacheChildren(_, _, _, _, _)
_cache_persisted_data(ns, cache, node, current_path) ==
    LET cache1 == DictSet(cache, current_path, node)
    IN  IF ns[node].kind = "directory"
          THEN CacheChildren(ns, cache1, node, current_path, ns[node].order)
          ELSE cache1

\* the loop over node.children.items() in _cache_persisted_data
CacheChildren(ns, cache, node, current_path, todo) ==
    IF todo = << >> THEN cache
    ELSE LET child_name == Head(todo)
             child_path == IF current_path # RootPath
                             THEN rstrip(current_path) \o <<SEP>> \o <<SEP>> \o child_name
                             ELSE <<SEP>> \o child_name
             cache1 == _cache_persisted_data(ns, cache, ns[node].children[child_name], child_path)
         IN  CacheChildren(ns, cache1, node, current_path, Tail(todo))

\* VirtualFileSystem.from_dict, in a new process at time now
from_dict(data, now) ==
    LET root_name == Head(data).key
        root_data == Head(data).value
        c == _construct_node([nodes |-> EmptyDict, nextId |-> 1], root_name, root_data, NoNode, now)
    IN  [nodes |-> c.st.nodes,
         root |-> c.node,
         traversal_cache |-> _cache_persisted_data(c.st.nodes, EmptyDict, c.node, RootPath),
         nextId |-> c.st.nextId]

----------------------------------------------------------------------------
(* Object lifetime: an object no reference reaches is freed *)

RECURSIVE Reach(_, _)
Reach(ns, S) ==
    LET S2 == S \cup UNION {{ns[d].children[k] : k \in DOMAIN ns[d].children} :
                               d \in {n \in S : ns[n].kind = "directory"}}
    IN  IF S2 = S THEN S ELSE Reach(ns, S2)

\* the objects the file system still references, through root or traversal_cache
Live(fs) ==
    Reach(fs.nodes, {fs.root} \cup {fs.traversal_cache[k] : k \in DOMAIN fs.traversal_cache})

Collect(fs) == [fs EXCEPT !.nodes = [n \in Live(fs) |-> fs.nodes[n]]]

----------------------------------------------------------------------------
(* Inputs *)

Paths ==
    { << >>, <<"/">>, <<"/", "a">>, <<"/", "a", "/">>,
      <<"/", "a", "/", "b">>, <<"/", "b">> }

\* the paths of the runs where time passes
TimedPaths == { <<"/">>, <<"/", "/">>, <<"/", "a">>, <<"/", "a", "/", "b">> }

NewNames == { <<"a">> }

\* content='' is the default of create_file
DefaultContent == StrContent(<< >>)

CreateContents == { DefaultContent, BytesContent(<<97>>) }

WriteContents == { BytesContent(<<98, 98>>) }

\* the paths, names and contents the properties try in every reachable state
ProbePaths ==
    Paths \cup TimedPaths \cup
    { <<"a">>, <<"/", "/", "a">>, <<"/", "a", "/", "/", "b">>, <<"/", "a", "/", "b", "/">>,
      <<"/", "a", "/", "a">>, <<"/", "b", "/", "b">>, <<"/", "a", "b">> }

ProbeNames == NewNames \cup { <<"b">>, <<"z">> }

ProbeContents == CreateContents \cup WriteContents

----------------------------------------------------------------------------
(* State machine *)

Self == [nodes |-> nodes, root |-> root,
         traversal_cache |-> traversal_cache, nextId |-> nextId]

Init ==
    /\ clock = 0
    /\ nodes = NewVFS(0).nodes
    /\ root = NewVFS(0).root
    /\ traversal_cache = NewVFS(0).traversal_cache
    /\ nextId = NewVFS(0).nextId
    /\ last = "__init__"
    /\ result = RetNone

\* the call returns (or raises) and leaves the file system r.fs;
\* cap bounds the node objects constructed so far
Returns(cap, r, op) ==
    /\ r.fs.nextId <= cap + 2
    /\ nodes' = Collect(r.fs).nodes
    /\ root' = r.fs.root
    /\ traversal_cache' = r.fs.traversal_cache
    /\ nextId' = r.fs.nextId
    /\ last' = op
    /\ result' = r.ret
    /\ UNCHANGED clock

CreateDirectory(cap, p) ==
    Returns(cap, create_directory(Self, p, clock), "create_directory")

CreateFile(cap, p, c) ==
    Returns(cap, create_file(Self, p, c, clock), "create_file")

ReadFile(cap, p) ==
    Returns(cap, read_file(Self, p, clock), "read_file")

WriteFile(cap, p, c) ==
    Returns(cap, write_file(Self, p, c, clock), "write_file")

Delete(cap, p) ==
    Returns(cap, delete(Self, p, clock), "delete")

Rename(cap, p, n) ==
    Returns(cap, rename(Self, p, n, clock), "rename")

\* what a direct call of _get_node_object_by_path shows its caller
Resolved(r) ==
    [fs |-> r.fs, ret |-> IF r.node = NoNode THEN RetNone ELSE Ret("node", NoContent)]

\* a direct call of _get_node_object_by_path, as the unit tests make
Resolve(cap, p) ==
    Returns(cap, Resolved(_get_node_object_by_path(Self, p)), "_get_node_object_by_path")

\* the process restarts: main.py loads the file update_json_storage wrote
Restart ==
    /\ ~to_dict_raises(nodes, root)
    /\ LET fs == from_dict(update_json_storage(Self), clock)
       IN  /\ nodes' = fs.nodes
           /\ root' = fs.root
           /\ traversal_cache' = fs.traversal_cache
           /\ nextId' = fs.nextId
    /\ last' = "from_dict"
    /\ result' = RetNone
    /\ UNCHANGED clock

\* time passes between two calls
Tick ==
    /\ clock < MaxClock
    /\ clock' = clock + 1
    /\ UNCHANGED <<nodes, root, traversal_cache, nextId, last, result>>

\* the operations on one file system object, at one instant
Next ==
    \/ \E p \in Paths : CreateDirectory(MaxNodes, p)
    \/ \E p \in Paths : CreateFile(MaxNodes, p, DefaultContent)
    \/ \E p \in Paths : ReadFile(MaxNodes, p)
    \/ \E p \in Paths, c \in WriteContents : WriteFile(MaxNodes, p, c)
    \/ \E p \in Paths : Delete(MaxNodes, p)
    \/ \E p \in Paths, n \in NewNames : Rename(MaxNodes, p, n)
    \/ \E p \in Paths : Resolve(MaxNodes, p)

Spec == Init /\ [][Next]_vars

\* the operations as time passes and the process restarts from its JSON file
NextPersist ==
    \/ \E p \in TimedPaths : CreateDirectory(MaxTimedNodes, p)
    \/ \E p \in TimedPaths, c \in CreateContents : CreateFile(MaxTimedNodes, p, c)
    \/ \E p \in TimedPaths : ReadFile(MaxTimedNodes, p)
    \/ \E p \in TimedPaths, c \in WriteContents : WriteFile(MaxTimedNodes, p, c)
    \/ \E p \in TimedPaths : Delete(MaxTimedNodes, p)
    \/ \E p \in TimedPaths, n \in NewNames : Rename(MaxTimedNodes, p, n)
    \/ Restart
    \/ Tick

SpecPersist == Init /\ [][NextPersist]_vars

----------------------------------------------------------------------------
(* What the properties observe *)

\* resolution of path p: the node _get_node_object_by_path returns, NoNode for None
Node(fs, p) == _get_node_object_by_path(fs, p).node

\* the node an uncached walk of p from the root reaches, NoNode when it fails
Uncached(fs, p) ==
    IF _normalize_path(p) = RootPath THEN fs.root
    ELSE Walk(fs.nodes, fs.root, split(strip(_normalize_path(p))))

\* the tree: every node object the root reaches, with all its fields
Tree(fs) == [n \in Reach(fs.nodes, {fs.root}) |-> fs.nodes[n]]

\* q is p or a path below p
AtOrBelow(q, p) ==
    \/ _normalize_path(q) = _normalize_path(p)
    \/ startswith(_normalize_path(q), _normalize_path(p) \o <<SEP>>)

\* the path of p's parent, and p with its last segment replaced by new_name
ParentOf(p) == _normalize_path(ParentPathOf(_normalize_path(p)))

Sibling(p, name) == ParentPathOf(_normalize_path(p)) \o <<SEP>> \o name

----------------------------------------------------------------------------
(* C1 *)

\* C1: every entry of traversal_cache maps its path to the node that an
\* uncached walk of that path from the root reaches now.
CacheCoherence ==
    \A k \in DOMAIN traversal_cache : Uncached(Self, k) = traversal_cache[k]

----------------------------------------------------------------------------
(* C2 *)

\* C2: when delete(p) returns True, p and every path below p resolve to
\* nothing afterwards, and read_file of them returns None.
DeleteUnresolves ==
    \A p \in ProbePaths :
        delete(Self, p, clock).ret = RetTrue =>
            \A q \in ProbePaths :
                AtOrBelow(q, p) =>
                    /\ Node(delete(Self, p, clock).fs, q) = NoNode
                    /\ read_file(delete(Self, p, clock).fs, q, clock).ret = RetNone

----------------------------------------------------------------------------
(* C3 *)

\* what C3 says of one successful rename of p to new_name, r its outcome;
\* the siblings are the other children of the directory p's parent path resolves to
RenameMovesIn(p, new_name, r) ==
    /\ \A q \in ProbePaths : AtOrBelow(q, p) => Node(r.fs, q) = NoNode
    /\ Node(r.fs, Sibling(p, new_name)) = Node(Self, p)
    /\ \A k \in DOMAIN nodes[Node(Self, ParentOf(p))].children :
          /\ k # NameOf(_normalize_path(p))
          /\ Node(Self, Sibling(p, k)) # NoNode
          => Node(r.fs, Sibling(p, k)) = Node(Self, Sibling(p, k))

\* C3: when rename(p, new_name) returns True, p and the paths below it no
\* longer resolve, the path with new_name as last segment resolves to the
\* node p resolved to, and every sibling path resolves to the node it did.
\* (new_name is another name than p's last segment: a node renamed to its
\* own name keeps its path, so that the old path cannot stop resolving.)
RenameMoves ==
    \A p \in ProbePaths, new_name \in ProbeNames :
        /\ rename(Self, p, new_name, clock).ret = RetTrue
        /\ new_name # NameOf(_normalize_path(p))
        => RenameMovesIn(p, new_name, rename(Self, p, new_name, clock))

----------------------------------------------------------------------------
(* C4 *)

\* a second create of p fails and leaves the tree as the first create left it
CreateAgainFails(fs, p) ==
    /\ create_directory(fs, p, clock).ret = RetFalse
    /\ Tree(create_directory(fs, p, clock).fs) = Tree(fs)
    /\ \A c \in ProbeContents :
          /\ create_file(fs, p, c, clock).ret = RetFalse
          /\ Tree(create_file(fs, p, c, clock).fs) = Tree(fs)

\* r, the outcome of a create of p, is a success that made p resolve to the new node
Created(r, p) ==
    /\ r.ret = RetTrue
    /\ Node(r.fs, p) = nextId
    /\ nextId \in DOMAIN r.fs.nodes
    /\ CreateAgainFails(r.fs, p)

\* p resolves to nothing and its parent path resolves to a directory
Free(fs, p) ==
    /\ Node(fs, p) = NoNode
    /\ isDirectory(fs.nodes, Node(fs, ParentOf(p)))

\* C4: create_directory and create_file of a free path whose parent is a
\* directory return True, the path then resolves to the node created, and a
\* second create of the path returns False and leaves the tree unchanged.
CreateThenResolve ==
    \A p \in ProbePaths :
        Free(Self, p) =>
            /\ Created(create_directory(Self, p, clock), p)
            /\ \A c \in ProbeContents : Created(create_file(Self, p, c, clock), p)

----------------------------------------------------------------------------
(* C5 *)

\* the parent path of p resolves to nothing or to a file
NoParent(fs, p) ==
    \/ Node(fs, ParentOf(p)) = NoNode
    \/ isFile(fs.nodes, Node(fs, ParentOf(p)))

\* r, the outcome of a create of p, is a failure that constructed no node
\* and left p unresolvable
Refused(r, p) ==
    /\ r.ret = RetFalse
    /\ r.fs.nodes = nodes
    /\ r.fs.nextId = nextId
    /\ Node(Self, p) = NoNode => Node(r.fs, p) = NoNode

\* C5: create_directory, create_file and the creating branch of write_file
\* return False when the parent path of p resolves to nothing or to a file;
\* no node is constructed and p stays unresolvable.
CreateNeedsParent ==
    \A p \in ProbePaths :
        NoParent(Self, p) =>
            /\ Refused(create_directory(Self, p, clock), p)
            /\ \A c \in ProbeContents :
                  /\ Refused(create_file(Self, p, c, clock), p)
                  /\ Node(Self, p) = NoNode => Refused(write_file(Self, p, c, clock), p)

----------------------------------------------------------------------------
(* C6 *)

\* C6: no operation raises, whatever the path and the state.
NeverRaises ==
    \A p \in ProbePaths :
        /\ create_directory(Self, p, clock).ret # RetRaise
        /\ read_file(Self, p, clock).ret # RetRaise
        /\ delete(Self, p, clock).ret # RetRaise
        /\ \A c \in ProbeContents :
              /\ create_file(Self, p, c, clock).ret # RetRaise
              /\ write_file(Self, p, c, clock).ret # RetRaise
        /\ \A n \in ProbeNames : rename(Self, p, n, clock).ret # RetRaise

----------------------------------------------------------------------------
(* C7 *)

\* C7: delete of a path whose normalized form is "/" returns False and
\* leaves the tree and the cache as they were.
DeleteRootFails ==
    \A p \in ProbePaths :
        _normalize_path(p) = RootPath =>
            /\ delete(Self, p, clock).ret = RetFalse
            /\ delete(Self, p, clock).fs = Self

----------------------------------------------------------------------------
(* C8 *)

\* what is found below node n, which is at the names `at` from the root:
\* every node with its path, name, type, content, size and timestamps
RECURSIVE Entries(_, _, _)
Entries(ns, n, at) ==
    IF ns[n].kind = "directory"
      THEN {[path |-> at, name |-> ns[n].name, type |-> "directory",
             content |-> NoContent, size |-> 0, created |-> ns[n].created,
             modified |-> ns[n].modified, accessed |-> ns[n].accessed]}
           \cup UNION {Entries(ns, ns[n].children[k], Append(at, k)) :
                          k \in DOMAIN ns[n].children}
      ELSE {[path |-> at, name |-> ns[n].name, type |-> "file",
             content |-> ns[n].content, size |-> ns[n].size, created |-> ns[n].created,
             modified |-> ns[n].modified, accessed |-> ns[n].accessed]}

\* deserialize(serialize(T)) for the tree T of file system fs, at time now
Reloaded(fs, now) == from_dict(update_json_storage(fs), now)

\* C8: the file system loaded from the serialized tree has at every path a
\* node with the same name, type, content, size and created, modified and
\* accessed timestamps as the tree serialized, and no other path.
RoundTrip ==
    ~to_dict_raises(nodes, root) =>
        Entries(Reloaded(Self, clock).nodes, Reloaded(Self, clock).root, << >>)
            = Entries(nodes, root, << >>)

----------------------------------------------------------------------------
(* C9 *)

\* r, the outcome of write_file(p, c) on the file n, rewrote n at the time
\* clock and nothing else
Rewritten(r, n, c) ==
    /\ r.ret = RetTrue
    /\ r.fs.root = root
    /\ r.fs.nodes = [nodes EXCEPT ![n].content = c, ![n].size = len(c),
                                  ![n].created = clock, ![n].modified = clock,
                                  ![n].accessed = clock]

\* r, the outcome of write_file(p, c), is the success create_file(p, c) would be
CreatedAsByCreateFile(r, p, c) ==
    /\ r.ret = RetTrue
    /\ Tree(r.fs) = Tree(create_file(Self, p, c, clock).fs)

\* r, the outcome of write_file on a directory, is a failure that changed no node
Untouched(r) ==
    /\ r.ret = RetFalse
    /\ r.fs.root = root
    /\ r.fs.nodes = nodes

\* C9: write_file(p, c) on a path that resolves to a file returns True, sets
\* the file's content to c and its size to len(c), refreshes its three
\* timestamps and changes no other node; on a path that does not resolve and
\* whose parent is a directory it returns True and leaves the tree
\* create_file(p, c) leaves; on a path that resolves to a directory it
\* returns False and changes nothing.
WriteUpserts ==
    \A p \in ProbePaths, c \in ProbeContents :
        /\ isFile(nodes, Node(Self, p)) =>
              Rewritten(write_file(Self, p, c, clock), Node(Self, p), c)
        /\ Free(Self, p) => CreatedAsByCreateFile(write_file(Self, p, c, clock), p, c)
        /\ isDirectory(nodes, Node(Self, p)) => Untouched(write_file(Self, p, c, clock))

----------------------------------------------------------------------------
(* C10 *)

\* r, the outcome of read_file on the file n, returned n's content and
\* changed nothing but n's accessed timestamp
ReadOnlyAccessed(r, n) ==
    /\ r.ret = Ret("content", nodes[n].content)
    /\ r.fs.root = root
    /\ r.fs.nodes = [nodes EXCEPT ![n].accessed = clock]

\* r, the outcome of a create_file or write_file of content c at p, is no
\* success or a read of p returns c after it
ThenReads(r, p, c) ==
    r.ret = RetTrue => read_file(r.fs, p, clock).ret = Ret("content", c)

\* C10: read_file(p) returns the content of the file p resolves to, which is
\* the content create_file or write_file stored there last, and None when p
\* resolves to nothing or to a directory; a read that succeeds changes the
\* accessed timestamp of that file and no other field of any node.
ReadReturnsStored ==
    \A p \in ProbePaths :
        /\ isFile(nodes, Node(Self, p)) =>
              ReadOnlyAccessed(read_file(Self, p, clock), Node(Self, p))
        /\ ~isFile(nodes, Node(Self, p)) => read_file(Self, p, clock).ret = RetNone
        /\ \A c \in ProbeContents :
              /\ ThenReads(create_file(Self, p, c, clock), p, c)
              /\ ThenReads(write_file(Self, p, c, clock), p, c)

\* a read returned the content of a file some time after the file was written
ReadAfterWrite ==
    /\ last = "read_file"
    /\ result.status = "content"
    /\ \E n \in DOMAIN nodes :
          /\ isFile(nodes, n)
          /\ result.content = nodes[n].content
          /\ nodes[n].accessed = clock
          /\ nodes[n].modified < clock

----------------------------------------------------------------------------
(* C11 *)

\* the heap ns with every timestamp erased
Untimed(ns) ==
    [n \in DOMAIN ns |-> [ns[n] EXCEPT !.created = 0, !.modified = 0, !.accessed = 0]]

\* the instants from the time of the first write on
Later == {t \in 0..MaxClock : t >= clock}

\* once and twice, the outcomes of one write_file(p, c) and of a second one
\* after it, are successes that differ in timestamps at most, and the file n
\* holds c with the size len(c)
SameButTimestamps(once, twice, n, c) ==
    /\ once.ret = RetTrue
    /\ twice.ret = RetTrue
    /\ twice.fs.nodes[n].content = c
    /\ twice.fs.nodes[n].size = len(c)
    /\ Untimed(twice.fs.nodes) = Untimed(once.fs.nodes)
    /\ twice.fs.root = once.fs.root

\* C11: for a path p that resolves to a file and every content c,
\* write_file(p, c) performed twice in a row leaves the content and size
\* (and everything but timestamps) that performing it once leaves.
WriteTwiceAsOnce ==
    \A p \in ProbePaths, c \in ProbeContents, t \in Later :
        isFile(nodes, Node(Self, p)) =>
            SameButTimestamps(write_file(Self, p, c, clock),
                              write_file(write_file(Self, p, c, clock).fs, p, c, t),
                              Node(Self, p), c)

\* a file that was in its directory before was written again by write_file
FileRewritten ==
    /\ last = "write_file"
    /\ result = RetTrue
    /\ \E n \in DOMAIN nodes :
          /\ isFile(nodes, n)
          /\ nodes[n].content \in WriteContents
          /\ nodes[n].modified = clock
          /\ nodes[n].parent \in DOMAIN nodes
          /\ nodes[nodes[n].parent].modified < clock

----------------------------------------------------------------------------
(* C12 *)

\* the normalized form of p has an empty segment inside: two adjacent separators
HasEmptySegment(p) ==
    \E i \in 1..(Len(_normalize_path(p)) - 1) :
        _normalize_path(p)[i] = SEP /\ _normalize_path(p)[i + 1] = SEP

\* r, the outcome of a create or write at p, constructed no node and left p unresolvable
NothingMade(r, p) ==
    /\ r.fs.nextId = nextId
    /\ Node(r.fs, p) = NoNode

\* C12: in every state, also after a load from the serialized tree, a path
\* with an internal empty segment resolves to nothing, and create_directory,
\* create_file and write_file of such a path construct no node and leave it
\* unresolvable.
EmptySegmentUnresolved ==
    \A p \in ProbePaths :
        HasEmptySegment(p) =>
            /\ Node(Self, p) = NoNode
            /\ NothingMade(create_directory(Self, p, clock), p)
            /\ \A c \in ProbeContents :
                  /\ NothingMade(create_file(Self, p, c, clock), p)
                  /\ NothingMade(write_file(Self, p, c, clock), p)

----------------------------------------------------------------------------
(* C13 *)

\* the strings of at most n characters over the separator and one letter
RECURSIVE StringsUpTo(_)
StringsUpTo(n) ==
    IF n = 0 THEN {<< >>}
    ELSE StringsUpTo(n - 1) \cup
         {Append(s, ch) : s \in StringsUpTo(n - 1), ch \in {SEP, "a"}}

\* the path strings _normalize_path is called with
Strings == StringsUpTo(MaxLen)

\* a call of _normalize_path alone: it returns the normalized string
Normalize(p) ==
    /\ last' = "_normalize_path"
    /\ result' = Ret("path", _normalize_path(p))
    /\ UNCHANGED <<nodes, root, traversal_cache, nextId, clock>>

NextPaths == \E p \in Strings : Normalize(p)

\* _normalize_path called with every string, on a new file system
SpecPaths == Init /\ [][NextPaths]_vars

\* s is a canonical absolute path
Canonical(s) ==
    /\ startswith(s, <<SEP>>)
    /\ endswith(s, <<SEP>>) => s = RootPath
    /\ _normalize_path(s) = s

\* C13: for every string p, _normalize_path(p) begins with the separator,
\* ends with the separator only when it is the root path "/", is "/" when p
\* is empty, and is left unchanged by a second normalization.
NormalizeCanonical ==
    last = "_normalize_path" =>
        /\ Canonical(result.content)
        /\ _normalize_path(EmptyStr) = RootPath

----------------------------------------------------------------------------
(* C14 *)

\* the places (directory, key) of the heap where node n is stored as a child
PlacesOf(n) ==
    {dk \in {<<d, k>> : d \in {x \in DOMAIN nodes : isDirectory(nodes, x)},
                         k \in UNION {DOMAIN nodes[x].children :
                                         x \in {y \in DOMAIN nodes : isDirectory(nodes, y)}}} :
        /\ dk[2] \in DOMAIN nodes[dk[1]].children
        /\ nodes[dk[1]].children[dk[2]] = n}

\* C14: for every directory D and every key k of D.children, the child stored
\* under k is named k and has D as its parent; and every node of the tree
\* other than the root is stored in the children of exactly one directory,
\* under one key.
ParentChildConsistent ==
    /\ \A d \in DOMAIN nodes :
          isDirectory(nodes, d) =>
              \A k \in DOMAIN nodes[d].children :
                  /\ nodes[nodes[d].children[k]].name = k
                  /\ nodes[nodes[d].children[k]].parent = d
    /\ \A n \in Reach(nodes, {root}) \ {root} : Cardinality(PlacesOf(n)) = 1

\* a rename succeeded and left a directory with a child
RenamedChild ==
    /\ last = "rename"
    /\ result = RetTrue
    /\ \E d \in DOMAIN nodes : isDirectory(nodes, d) /\ nodes[d].children # EmptyDict

----------------------------------------------------------------------------
(* C15 *)

\* C15: every node of the tree other than the root has a name that is not
\* the empty string and that no other child of its parent has.
NamesNonEmptyUnique ==
    /\ \A n \in Reach(nodes, {root}) \ {root} : nodes[n].name # EmptyStr
    /\ \A d \in Reach(nodes, {root}) :
          isDirectory(nodes, d) =>
              \A k1, k2 \in DOMAIN nodes[d].children :
                  k1 # k2 => nodes[nodes[d].children[k1]].name
                                # nodes[nodes[d].children[k2]].name

----------------------------------------------------------------------------
(* C16 *)

\* the str 'é', one character that UTF-8 encodes in two bytes
NonAsciiText == StrContent(<<233>>)

\* every file node of the heap ns has the size len(content)
FilesSized(ns) ==
    \A n \in DOMAIN ns : isFile(ns, n) => ns[n].size = len(ns[n].content)

\* r, the outcome of a create_file or write_file, leaves every file with the
\* size of its content, and so does a load of the tree serialized after it
SizedAfter(r) ==
    /\ FilesSized(r.fs.nodes)
    /\ ~to_dict_raises(r.fs.nodes, r.fs.root) => FilesSized(Reloaded(r.fs, clock).nodes)

\* C16: in every state, also the states create_file and write_file produce
\* and the state loaded from a serialized tree, the size of every file node
\* is the length of its content.
SizeIsLength ==
    /\ FilesSized(nodes)
    /\ \A p \in ProbePaths, c \in ProbeContents \cup {NonAsciiText} :
          /\ SizedAfter(create_file(Self, p, c, clock))
          /\ SizedAfter(write_file(Self, p, c, clock))

----------------------------------------------------------------------------
(* C17 *)

\* C17: the root is the directory node constructed first, named "/" and
\* without parent, and the path "/" resolves to it.
RootStays ==
    /\ root = NewVFS(0).root
    /\ isDirectory(nodes, root)
    /\ nodes[root].name = RootPath
    /\ nodes[root].parent = NoNode
    /\ Node(Self, RootPath) = root

----------------------------------------------------------------------------
(* C18 *)

\* key k is the normalized path of p, or that path followed by a separator and more
KeyAtOrBelow(k, p) ==
    \/ k = _normalize_path(p)
    \/ /\ Len(k) > Len(_normalize_path(p))
       /\ SubSeq(k, 1, Len(_normalize_path(p))) = _normalize_path(p)
       /\ k[Len(_normalize_path(p)) + 1] = SEP

\* the invalidation of p turned the file system fs into after: the keys at
\* or below p are gone, every other entry is as it was, and so is the tree
RemovedExactly(fs, after, p) ==
    /\ DOMAIN after.traversal_cache =
          {k \in DOMAIN fs.traversal_cache : ~KeyAtOrBelow(k, p)}
    /\ \A k \in DOMAIN after.traversal_cache :
          after.traversal_cache[k] = fs.traversal_cache[k]
    /\ after.nodes = fs.nodes
    /\ after.root = fs.root

\* a path that creates nothing, a sibling of /a whose name begins with "a",
\* and a path below /a
BesidePaths == { <<"/">>, <<"/", "a", "b">>, <<"/", "a", "/", "b">> }

\* the file system after one more directory is created at q, if it can be
OneMore(q) == create_directory(Self, q, clock).fs

\* C18: _remove_changed_node_from_cache(p) removes the cache entries whose
\* key is the normalized p or starts with it followed by a separator, and
\* no other entry: the entry of a sibling whose name only begins with p's
\* last segment ("/ab" for "/a") stays.
InvalidationExact ==
    \A q \in BesidePaths, p \in ProbePaths :
        RemovedExactly(OneMore(q), _remove_changed_node_from_cache(OneMore(q), p), p)

\* /a is cached, /ab can be created beside it, and the invalidation of /a
\* then removes the entry /a and keeps the entry /ab
SiblingEntryKept ==
    /\ <<"/", "a">> \in DOMAIN traversal_cache
    /\ create_directory(Self, <<"/", "a", "b">>, clock).ret = RetTrue
    /\ <<"/", "a", "b">> \in DOMAIN
          _remove_changed_node_from_cache(OneMore(<<"/", "a", "b">>), <<"/", "a">>).traversal_cache
    /\ <<"/", "a">> \notin DOMAIN
          _remove_changed_node_from_cache(OneMore(<<"/", "a", "b">>), <<"/", "a">>).traversal_cache
----------------------------------------------------------------------------
(* C19 *)

\* the path of the child named c of the node renamed from p to new_name
Moved(p, new_name, c) == Sibling(p, new_name) \o <<SEP>> \o c

\* what C19 says of one successful rename of the directory at p in fs to
\* new_name, r its outcome
RenameRewarmsIn(fs, p, new_name, r) ==
    /\ \A k \in DOMAIN r.fs.traversal_cache : ~KeyAtOrBelow(k, p)
    /\ Sibling(p, new_name) \in DOMAIN r.fs.traversal_cache
    /\ r.fs.traversal_cache[Sibling(p, new_name)] = Node(fs, p)
    /\ \A c \in DOMAIN fs.nodes[Node(fs, p)].children :
          /\ Moved(p, new_name, c) \in DOMAIN r.fs.traversal_cache
                => /\ Moved(p, new_name, c) \in DOMAIN fs.traversal_cache
                   /\ r.fs.traversal_cache[Moved(p, new_name, c)]
                         = fs.traversal_cache[Moved(p, new_name, c)]
          /\ Node(r.fs, Moved(p, new_name, c)) = fs.nodes[Node(fs, p)].children[c]
          /\ Moved(p, new_name, c) \in DOMAIN
                _get_node_object_by_path(r.fs, Moved(p, new_name, c)).fs.traversal_cache
          /\ _get_node_object_by_path(r.fs, Moved(p, new_name, c)).fs.traversal_cache[Moved(p, new_name, c)]
                = fs.nodes[Node(fs, p)].children[c]

\* the renames of fs that C19 is about: successful, of a directory, to
\* another name than it has
DirectoryRenamed(fs, p, new_name) ==
    /\ rename(fs, p, new_name, clock).ret = RetTrue
    /\ Node(fs, p) # NoNode
    /\ isDirectory(fs.nodes, Node(fs, p))
    /\ new_name # NameOf(_normalize_path(p))

\* every entry of fs's cache maps its path to the node a walk of it reaches
Coherent(fs) ==
    \A k \in DOMAIN fs.traversal_cache : Uncached(fs, k) = fs.traversal_cache[k]

\* the file system after directories are created at q1 and q2, if they can be
TwoMore(q1, q2) ==
    create_directory(create_directory(Self, q1, clock).fs, q2, clock).fs

\* C19: after a successful rename of the directory at p to new_name the
\* cache has no key at or below p, maps the new path to the renamed node,
\* has got no entry for a descendant's new path, and every child resolves
\* under the new path to the node it was, which is then cached.
\* (Said of normalized paths p and of file systems whose cache is coherent
\* before the rename, also with up to two more directories in them.)
RenameRewarms ==
    \A q1 \in {RootPath, <<"/", "a", "/", "b">>}, q2 \in {RootPath, <<"/", "b", "/", "b">>} :
        \A p \in ProbePaths, new_name \in ProbeNames :
            /\ DirectoryRenamed(TwoMore(q1, q2), p, new_name)
            /\ p = _normalize_path(p)
            /\ Coherent(TwoMore(q1, q2))
            => RenameRewarmsIn(TwoMore(q1, q2), p, new_name,
                               rename(TwoMore(q1, q2), p, new_name, clock))
----------------------------------------------------------------------------
(* C20 *)

\* the child named new_name of the directory that holds node in fs, NoNode
\* when there is none
Occupant(fs, node, new_name) ==
    IF node \in {NoNode, fs.root} THEN NoNode
    ELSE get_child(fs.nodes, fs.nodes[node].parent, new_name)

\* what C20 says of a rename of node to new_name in fs, occupant the child
\* that has the name and r the outcome
OverwrittenIn(fs, node, occupant, new_name, r) ==
    /\ r.ret = RetTrue
    /\ get_child(r.fs.nodes, fs.nodes[node].parent, new_name) = node
    /\ occupant \notin Reach(r.fs.nodes, {r.fs.root})
    /\ \A k \in DOMAIN fs.traversal_cache :
          fs.traversal_cache[k] \in Reach(fs.nodes, {occupant}) \ {occupant}
          => /\ k \in DOMAIN r.fs.traversal_cache
             /\ r.fs.traversal_cache[k] = fs.traversal_cache[k]

\* C20 for the file system fs
RenameOverwritesIn(fs) ==
    \A p \in ProbePaths, new_name \in ProbeNames :
        LET node == Uncached(fs, p)
            occupant == Occupant(fs, node, new_name)
        IN  /\ occupant # NoNode
            /\ occupant # node
            => OverwrittenIn(fs, node, occupant, new_name, rename(fs, p, new_name, clock))

\* C20: when new_name is the name of another child of the directory that
\* holds the node at p, rename(p, new_name) returns True, that directory's
\* children map new_name to the renamed node, the child that had the name
\* is no longer reached from the root, and the cache entries of that
\* child's descendants are still there.
\* (Said also of the file system with one more directory /b/b.)
RenameOverwrites ==
    /\ RenameOverwritesIn(Self)
    /\ RenameOverwritesIn(OneMore(<<"/", "b", "/", "b">>))
----------------------------------------------------------------------------
(* C21 *)

\* the directory that holds node n in the tree of fs
ParentDir(fs, n) == fs.nodes[n].parent

\* in r, the outcome of a successful operation, the directory that holds
\* node n, the operation's target, has the time of the operation as modified
ParentRefreshed(holder, n, r) ==
    /\ r.ret = RetTrue
    /\ n \notin {NoNode, r.fs.root}
    => r.fs.nodes[ParentDir(holder, n)].modified = clock

\* C21: after a successful create_directory, create_file, write_file (of a
\* new and of an existing file), delete or rename, the modified timestamp
\* of the directory that holds the target is the time of the operation.
ParentModifiedRefreshed ==
    \A p \in ProbePaths :
        /\ ParentRefreshed(create_directory(Self, p, clock).fs,
                           Uncached(create_directory(Self, p, clock).fs, p),
                           create_directory(Self, p, clock))
        /\ ParentRefreshed(Self, Uncached(Self, p), delete(Self, p, clock))
        /\ \A new_name \in ProbeNames :
              ParentRefreshed(Self, Uncached(Self, p), rename(Self, p, new_name, clock))
        /\ \A c \in ProbeContents :
              /\ ParentRefreshed(create_file(Self, p, c, clock).fs,
                                 Uncached(create_file(Self, p, c, clock).fs, p),
                                 create_file(Self, p, c, clock))
              /\ ParentRefreshed(write_file(Self, p, c, clock).fs,
                                 Uncached(write_file(Self, p, c, clock).fs, p),
                                 write_file(Self, p, c, clock))

----------------------------------------------------------------------------
(* C22 *)

\* the nodes of the tree below n with their absolute paths, n being at the
\* path at: the segments joined by single separators
RECURSIVE Placed(_, _, _)
Placed(ns, n, at) ==
    IF ns[n].kind = "directory"
      THEN {<<at, n>>} \cup
           UNION {Placed(ns, ns[n].children[k],
                         IF at = RootPath THEN <<SEP>> \o k ELSE at \o <<SEP>> \o k) :
                     k \in DOMAIN ns[n].children}
      ELSE {<<at, n>>}

\* C22: in the file system from_dict built, the cache maps the absolute
\* path of every node of the tree to that node and has no other key, and
\* the parent of every child is the directory that holds it.
\* (Said of trees in which no node has the empty name.)
LoadedCacheComplete ==
    /\ last = "from_dict"
    /\ \A n \in Reach(nodes, {root}) : nodes[n].name # EmptyStr
    =>
        /\ \A e \in Placed(nodes, root, RootPath) :
              /\ e[1] \in DOMAIN traversal_cache
              /\ traversal_cache[e[1]] = e[2]
        /\ DOMAIN traversal_cache = {e[1] : e \in Placed(nodes, root, RootPath)}
        /\ \A d \in Reach(nodes, {root}) :
              isDirectory(nodes, d) =>
                  \A k \in DOMAIN nodes[d].children : nodes[nodes[d].children[k]].parent = d

----------------------------------------------------------------------------
(* C23 *)

\* what C23 says of one resolution of p, r its outcome
ResolutionFrameIn(p, r) ==
    /\ r.fs.nodes = nodes
    /\ r.fs.root = root
    /\ r.node = NoNode => r.fs.traversal_cache = traversal_cache
    /\ r.fs.traversal_cache # traversal_cache =>
          /\ _normalize_path(p) \notin DOMAIN traversal_cache
          /\ r.node # NoNode
          /\ r.node = Uncached(Self, p)
          /\ DOMAIN r.fs.traversal_cache = DOMAIN traversal_cache \cup {_normalize_path(p)}
          /\ \A k \in DOMAIN traversal_cache : r.fs.traversal_cache[k] = traversal_cache[k]
          /\ r.fs.traversal_cache[_normalize_path(p)] = r.node
    /\ /\ _normalize_path(p) \notin DOMAIN traversal_cache
       /\ _normalize_path(p) # RootPath
       /\ Uncached(Self, p) # NoNode
       => /\ _normalize_path(p) \in DOMAIN r.fs.traversal_cache
          /\ r.fs.traversal_cache[_normalize_path(p)] = Uncached(Self, p)
    /\ r.node = NoNode =>
          /\ create_directory(r.fs, p, clock).ret = RetTrue
                => Node(create_directory(r.fs, p, clock).fs, p) = nextId
          /\ \A c \in ProbeContents :
                create_file(r.fs, p, c, clock).ret = RetTrue
                    => Node(create_file(r.fs, p, c, clock).fs, p) = nextId

\* C23: _get_node_object_by_path leaves the tree as it is; it changes the
\* cache only when an uncached walk finds a node, by the one entry from the
\* normalized path to that node; a resolution that finds nothing leaves
\* the cache as it is, and a node created at the path afterwards is found.
ResolutionFrame ==
    \A p \in ProbePaths : ResolutionFrameIn(p, _get_node_object_by_path(Self, p))

\* /a/b is in the tree and not in the cache, and its resolution caches it
WalkCached ==
    /\ <<"/", "a", "/", "b">> \notin DOMAIN traversal_cache
    /\ Uncached(Self, <<"/", "a", "/", "b">>) # NoNode
    /\ <<"/", "a", "/", "b">> \in DOMAIN
          _get_node_object_by_path(Self, <<"/", "a", "/", "b">>).fs.traversal_cache
    /\ _get_node_object_by_path(Self, <<"/", "b">>).node = NoNode
    /\ _get_node_object_by_path(Self, <<"/", "b">>).fs.traversal_cache = traversal_cache

----------------------------------------------------------------------------
(* C24 *)

\* two outcomes of an operation are the same result, tree and cache
SameOutcome(r1, r2) ==
    /\ r1.ret = r2.ret
    /\ r1.fs.root = r2.fs.root
    /\ Tree(r1.fs) = Tree(r2.fs)
    /\ r1.fs.traversal_cache = r2.fs.traversal_cache

\* a delete of p that returned True took the node p resolved to out of the tree
DeleteRemoved(p, r) ==
    r.ret = RetTrue => Node(Self, p) \notin Reach(r.fs.nodes, {r.fs.root})

\* C24: every operation applied to a path p gives the result, the tree and
\* the cache it gives applied to _normalize_path(p), and a delete that
\* returns True has removed the node.
CanonicalAddressing ==
    \A p \in ProbePaths :
        /\ SameOutcome(create_directory(Self, p, clock),
                       create_directory(Self, _normalize_path(p), clock))
        /\ SameOutcome(read_file(Self, p, clock), read_file(Self, _normalize_path(p), clock))
        /\ SameOutcome(delete(Self, p, clock), delete(Self, _normalize_path(p), clock))
        /\ DeleteRemoved(p, delete(Self, p, clock))
        /\ \A new_name \in ProbeNames :
              SameOutcome(rename(Self, p, new_name, clock),
                          rename(Self, _normalize_path(p), new_name, clock))
        /\ \A c \in ProbeContents :
              /\ SameOutcome(create_file(Self, p, c, clock),
                             create_file(Self, _normalize_path(p), c, clock))
              /\ SameOutcome(write_file(Self, p, c, clock),
                             write_file(Self, _normalize_path(p), c, clock))

----------------------------------------------------------------------------
(* C25 *)

\* r, the outcome of an operation, is a failure that left the tree of the
\* file system as it was: the same nodes with the same fields
\* and its cache as it was but for new entries of paths a walk resolves
FailedUnchanged(r) ==
    r.ret = RetFalse =>
        /\ r.fs.root = root
        /\ Tree(r.fs) = Tree(Self)
        /\ \A k \in DOMAIN traversal_cache :
              /\ k \in DOMAIN r.fs.traversal_cache
              /\ r.fs.traversal_cache[k] = traversal_cache[k]
        /\ \A k \in DOMAIN r.fs.traversal_cache \ DOMAIN traversal_cache :
              r.fs.traversal_cache[k] = Uncached(Self, k)

\* C25: a create_directory, create_file, write_file, delete or rename that
\* returns False leaves every node of the tree as it was, with its name,
\* content, size, children and timestamps; the cache keeps its entries and
\* at most gains entries that map an existing path to the node at it.
FailureLeavesTree ==
    \A p \in ProbePaths :
        /\ FailedUnchanged(create_directory(Self, p, clock))
        /\ FailedUnchanged(delete(Self, p, clock))
        /\ \A new_name \in ProbeNames : FailedUnchanged(rename(Self, p, new_name, clock))
        /\ \A c \in ProbeContents :
              /\ FailedUnchanged(create_file(Self, p, c, clock))
              /\ FailedUnchanged(write_file(Self, p, c, clock))


\* a delete has returned False at a time later than the creation of a node
\* of the tree
DeleteFailedLater ==
    /\ last = "delete"
    /\ result = RetFalse
    /\ clock > 0
    /\ \E n \in Reach(nodes, {root}) \ {root} : nodes[n].modified < clock
----------------------------------------------------------------------------
(* C26 *)

\* node n of the heap before has in the heap after the fields it had; when
\* it is the directory holder, its modified may differ and so may its child name
SameNodeBut(before, after, n, holder, name) ==
    IF n = holder
      THEN /\ after[n].name = before[n].name
           /\ after[n].parent = before[n].parent
           /\ after[n].kind = before[n].kind
           /\ after[n].created = before[n].created
           /\ after[n].accessed = before[n].accessed
           /\ DOMAIN after[n].children \ {name} = DOMAIN before[n].children \ {name}
           /\ \A k \in DOMAIN before[n].children \ {name} :
                 after[n].children[k] = before[n].children[k]
      ELSE after[n] = before[n]

\* what C26 says of one operation on p, r its outcome
OutsideUntouched(p, r) ==
    r.ret = RetTrue =>
        \A q \in ProbePaths :
            ~AtOrBelow(q, p) =>
                /\ Node(r.fs, q) = Node(Self, q)
                /\ Node(Self, q) # NoNode =>
                      SameNodeBut(nodes, r.fs.nodes, Node(Self, q),
                                  Node(Self, ParentOf(p)), NameOf(_normalize_path(p)))

\* C26: after a successful create_directory, create_file, write_file or
\* delete of p, every path that is neither p nor below p resolves to the
\* node it resolved to, and that node has the content, size, children and
\* timestamps it had, but for the modified timestamp and the entry of p in
\* the directory that holds p.
OutsideSubtreeUntouched ==
    \A p \in ProbePaths :
        /\ OutsideUntouched(p, create_directory(Self, p, clock))
        /\ OutsideUntouched(p, delete(Self, p, clock))
        /\ \A c \in ProbeContents :
              /\ OutsideUntouched(p, create_file(Self, p, c, clock))
              /\ OutsideUntouched(p, write_file(Self, p, c, clock))

====
